---- MODULE Spec2Model ----
(***************************************************************************)
(* A model of the executor registry (runtime/registry.py) and of the       *)
(* language executors it dispatches to (runtime/plugins/python_exec.py,    *)
(* c_exec.py, cpp_exec.py).                                                *)
(*                                                                         *)
(* Python strings are sequences of one-character strings, so that          *)
(* str.lower() and substring tests are computed and not assumed.  Output   *)
(* texts of the executors are sequences of pieces: a literal of the source *)
(* is one piece, an interpolated value is one piece.                       *)
(***************************************************************************)
EXTENDS Integers, Sequences, FiniteSets, TLC

(***************************************************************************)
(* Bounds of the model and constants of the program.                       *)
(***************************************************************************)
\* registry.py:8  TIMEOUT = 5  (seconds)
TIMEOUT == 5

\* how many times the plugin files are edited on disk during a behaviour
MaxEdits == 1

\* the longest source snippet handed to execute(), in characters
MaxCodeLen == 1

\* how many different executors the host itself passes to register()
NumHostFns == 1

\* how far the clock of the host runs
MaxClock == 2

(***************************************************************************)
(* Strings.                                                                *)
(***************************************************************************)
Uppers == <<"A","B","C","D","E","F","G","H","I","J","K","L","M",
            "N","O","P","Q","R","S","T","U","V","W","X","Y","Z">>
Lowers == <<"a","b","c","d","e","f","g","h","i","j","k","l","m",
            "n","o","p","q","r","s","t","u","v","w","x","y","z">>

\* one character of str.lower(): an upper-case letter maps to its lower-case
\* letter, everything else to itself
LowerChar(ch) ==
  IF \E i \in 1..26 : Uppers[i] = ch
  THEN Lowers[CHOOSE i \in 1..26 : Uppers[i] = ch]
  ELSE ch

\* a plausible slip: the key is used as given
lower_identity(s) == s

\* str.lower()
lower(s) == [i \in 1..Len(s) |-> LowerChar(s[i])]

\* `sub in text` of Python
Contains(text, sub) ==
  \E i \in 0..(Len(text) - Len(sub)) :
    \A j \in 1..Len(sub) : text[i + j] = sub[j]

\* two strings are the same up to the case of their letters; stated with the
\* upper-case table read the other way round, independently of lower()
SameLetter(a, b) ==
  \/ a = b
  \/ \E i \in 1..26 : {a, b} = {Uppers[i], Lowers[i]}

EqIgnoringCase(s, t) ==
  /\ Len(s) = Len(t)
  /\ \A i \in 1..Len(s) : SameLetter(s[i], t[i])

(***************************************************************************)
(* The languages a host asks for, and the executors.                       *)
(***************************************************************************)
lang_c      == <<"c">>
lang_cpp    == <<"c","p","p">>
lang_python == <<"p","y","t","h","o","n">>

Langs ==
  { lang_c, <<"C">>,
    lang_cpp,
    lang_python, <<"P","y","t","h","o","n">>,
    <<"g","o">> }

Plugins == {"c_exec", "cpp_exec", "python_exec"}

\* An executor is a function object.  The ones a plugin module defines are
\* told apart by the generation of the module's namespace that defined them
\* (a reload of the module defines a new function object); the ones the host
\* passes to register() are told apart by a number.
HostFns == { [src |-> "host", gen |-> n] : n \in 1..NumHostFns }

\* the absent value of dict.get()
None == [src |-> "None", gen |-> 0]

VARIABLES
  _exec,        \* ExecutorRegistry._exec: lower-cased language -> executor
  sys_modules,  \* the plugin modules in sys.modules
  plugin_files, \* the *.py files of PLUGIN_DIR on disk
  os_name,      \* os.name of the host process
  latest,       \* history: per language (upper-cased), the executor of the
                \* last register() call not followed by an unregister()
  call,         \* the call of execute() about to be made, where one attempt
                \* is explored by itself
  now,          \* the clock of the host
  scanned,      \* history: the clock reading of the last plugin scan, if any
  threads,      \* where each thread of the host is inside a discovery call
  ret           \* the last call to the registry and what it returned

vars == <<_exec, sys_modules, plugin_files, os_name, latest, call, now,
          scanned, threads, ret>>

(***************************************************************************)
(* The registry's table, as pure operations on a dict.                     *)
(***************************************************************************)
\* dict.get(k): the value, or None
Get(d, k) == IF k \in DOMAIN d THEN d[k] ELSE None

\* d[k] = v
SetItem(d, k, v) == [x \in DOMAIN d \cup {k} |-> IF x = k THEN v ELSE d[x]]

\* d.pop(k, None), for its effect on d
Pop(d, k) == [x \in DOMAIN d \ {k} |-> d[x]]

\* a plausible slip: the binding is kept when one exists already
register_keep_first(d, lang, fn) ==
  IF lower(lang) \in DOMAIN d THEN d ELSE SetItem(d, lower(lang), fn)

\* ExecutorRegistry.register
register(d, lang, fn) == SetItem(d, lower(lang), fn)

\* a plausible slip: the key is popped as given, not lower-cased
unregister_as_given(d, lang) == Pop(d, lang)

\* ExecutorRegistry.unregister
unregister(d, lang) == Pop(d, lower(lang))

\* ExecutorRegistry.has
has(d, lang) == lower(lang) \in DOMAIN d

\* the order of Python's str comparison: code points, position by position,
\* a proper prefix first.  Of the characters used here the upper-case letters
\* come before the lower-case ones, as in ASCII.
Ord(ch) ==
  IF \E i \in 1..26 : Uppers[i] = ch
  THEN CHOOSE i \in 1..26 : Uppers[i] = ch
  ELSE 26 + (CHOOSE i \in 1..26 : Lowers[i] = ch)

StrLess(s, t) ==
  \E n \in 0..Len(s) :
    /\ n <= Len(t)
    /\ \A i \in 1..n : s[i] = t[i]
    /\ \/ n = Len(s) /\ n < Len(t)
       \/ n < Len(s) /\ n < Len(t) /\ Ord(s[n + 1]) < Ord(t[n + 1])

\* a plausible slip: sorted(..., reverse=True)
RECURSIVE sorted_descending(_)
sorted_descending(S) ==
  IF S = {} THEN <<>>
  ELSE LET m == CHOOSE x \in S : \A y \in S \ {x} : StrLess(y, x)
       IN  <<m>> \o sorted_descending(S \ {m})

\* sorted(iterable of str): the ascending list of its elements
RECURSIVE sorted(_)
sorted(S) ==
  IF S = {} THEN <<>>
  ELSE LET m == CHOOSE x \in S : \A y \in S \ {x} : StrLess(x, y)
       IN  <<m>> \o sorted(S \ {m})

\* ExecutorRegistry.list_languages: iterating a dict yields its keys
list_languages(d) == sorted(DOMAIN d)

\* the text execute() returns when no executor is bound:
\* f"No executor for {lang}. Create one from the (+) menu!"
\* (the heavy plus sign of the source is written + here)
NoExecutorText(lang) ==
  <<"N","o"," ","e","x","e","c","u","t","o","r"," ","f","o","r"," ">>
  \o lang
  \o <<"."," ","C","r","e","a","t","e"," ","o","n","e"," ","f","r","o","m",
       " ","t","h","e"," ","+"," ","m","e","n","u","!">>

(***************************************************************************)
(* Source snippets, child processes and what an executor call leaves.      *)
(***************************************************************************)
\* a character that str.encode() (UTF-8, strict) refuses: a lone surrogate
Surrogate == "\\udc80"

CodeChars == {"x", Surrogate}

Codes == UNION { [1..n -> CodeChars] : n \in 1..MaxCodeLen }

\* str.encode() returns iff every character can be encoded
Encodable(code) == \A i \in 1..Len(code) : code[i] # Surrogate

\* What a child process does, seen from subprocess.run(..., timeout=TIMEOUT):
\*   oserror      the program cannot be started (Popen raises OSError)
\*   exit         it exits after t seconds with status rc, having written
\*                out and err
\*   undecodable  it exits after t seconds and its output is not text in the
\*                locale's encoding (text=True decodes strictly)
\*   forks        it starts a process of its own, which inherits its pipes,
\*                and both are still running after t seconds
\* t > TIMEOUT stands for a process still running when the timeout expires.
Proc(kind, t, rc, out, err) ==
  [kind |-> kind, t |-> t, rc |-> rc, out |-> out, err |-> err]

NoProc == Proc("none", 0, 0, <<>>, <<>>)

\* what subprocess.run hands back: a CompletedProcess, or an exception
Completed(rc, out, err, events) ==
  [raised |-> "none", rc |-> rc, out |-> out, err |-> err, events |-> events]

RunRaises(exc, events) ==
  [raised |-> exc, rc |-> 0, out |-> <<>>, err |-> <<>>, events |-> events]

\* n seconds go by while the caller waits for the process of a stage
Seconds(stage, n) == [i \in 1..n |-> <<"second", stage>>]

\* What subprocess.run does once it has killed the child on a timeout.
\* POSIX: process.wait(), which returns when the killed child is reaped.
\* Windows: process.communicate() with no timeout, which returns when the
\* pipes reach end of file, and so not before every process holding them has
\* ended: the call is blocked for as long as a forked process lives.
after_kill(stage, p, os) ==
  IF os = "nt" /\ p.kind = "forks" THEN << <<"blocked", stage>> >> ELSE <<>>

\* subprocess.run(cmd, text=True, capture_output=True, timeout=timeout)
subprocess_run(stage, p, timeout, os) ==
  IF p.kind = "oserror" THEN RunRaises("OSError", <<>>)
  ELSE IF p.t > timeout
  THEN \* communicate() times out; run() kills the child (Popen.kill() is
       \* sent to the child alone, not to what it started), waits, re-raises
       RunRaises("TimeoutExpired",
                 << <<"spawn", stage>> >>
                 \o (IF p.kind = "forks" THEN << <<"fork", stage>> >> ELSE <<>>)
                 \o Seconds(stage, timeout)
                 \o << <<"kill", stage>> >>
                 \o after_kill(stage, p, os))
  ELSE IF p.kind = "undecodable"
  THEN RunRaises("UnicodeDecodeError",
                 << <<"spawn", stage>> >> \o Seconds(stage, p.t)
                 \o << <<"exit", stage>> >>)
  ELSE Completed(p.rc, p.out, p.err,
                 << <<"spawn", stage>> >> \o Seconds(stage, p.t)
                 \o << <<"exit", stage>> >>)

\* what a call of an executor comes to: it returns (ok, text) or raises
Returns(ok, text, events) ==
  [raised |-> "none", ok |-> ok, text |-> text, events |-> events]

Raises(exc, events) ==
  [raised |-> exc, ok |-> FALSE, text |-> <<>>, events |-> events]

\* the temporary paths of an attempt that exist after its events
InTmpDir(path) == path \in {"tmpdir", "tmpdir/src", "tmpdir/exe"}

Removes(ev, path) ==
  \/ ev = <<"remove", path>>
  \/ ev = <<"rmtree", "tmpdir">> /\ InTmpDir(path)

TmpPaths == {"tmpfile", "tmpdir", "tmpdir/src", "tmpdir/exe"}

Created(events) ==
  { path \in TmpPaths : \E i \in 1..Len(events) : events[i] = <<"create", path>> }

Left(events) ==
  { path \in Created(events) :
      \E i \in 1..Len(events) :
        /\ events[i] = <<"create", path>>
        /\ \A j \in (i + 1)..Len(events) : ~Removes(events[j], path) }

Removals(events, path) ==
  Cardinality({ i \in 1..Len(events) : Removes(events[i], path) })

(***************************************************************************)
(* python_exec.py                                                          *)
(***************************************************************************)
\* What the environment of one executor call decides:
\*   which    the compiler names shutil.which() finds on PATH
\*   write    whether writing the snippet to disk succeeds ("ok", "oserror")
\*   compile  the compiler process, run the interpreter or artifact process
\*   host     what an executor passed in by the host does
Env(which, write, compile, run, host) ==
  [which |-> which, write |-> write, compile |-> compile, run |-> run,
   host |-> host]

\* a plausible slip: os.remove() is not attempted
remove_tmp_never(os, closed) == <<>>

\* python_exec.py:18-20, `finally: try: os.remove(tmp.name) / except: pass`.
\* Windows refuses to delete a file that is still open (PermissionError,
\* swallowed by the bare except); everywhere else the name is unlinked.
remove_tmp(os, closed) ==
  IF os = "nt" /\ ~closed
  THEN << <<"remove_failed", "tmpfile">> >>
  ELSE << <<"remove", "tmpfile">> >>

\* python_exec._run_temp
_run_temp(code, env, os) ==
  LET created == << <<"create", "tmpfile">> >>
      try ==
        IF ~Encodable(code)
        THEN [r |-> Raises("UnicodeEncodeError", <<>>), closed |-> FALSE]
        ELSE IF env.write = "oserror"
        THEN \* a snippet this short stays in the file's buffer until
             \* tmp.close() flushes it: close() raises, the file is closed
             [r |-> Raises("OSError", <<>>), closed |-> TRUE]
        ELSE
          LET res == subprocess_run("run", env.run, TIMEOUT, os)
          IN  [r |-> IF res.raised = "TimeoutExpired"
                     THEN Returns(FALSE, <<"Execution timed out">>, res.events)
                     ELSE IF res.raised # "none"
                     THEN Raises(res.raised, res.events)
                     ELSE Returns(res.rc = 0,
                                  IF res.rc = 0 THEN res.out ELSE res.err,
                                  res.events),
               closed |-> TRUE]
  IN  [try.r EXCEPT !.events = created \o @ \o remove_tmp(os, try.closed)]

(***************************************************************************)
(* c_exec.py and cpp_exec.py                                               *)
(***************************************************************************)
NoPath == "None"

\* a plausible slip: the candidates are all looked up and the last one found
\* is used
RECURSIVE find_last(_, _)
find_last(names, which) ==
  IF names = <<>> THEN NoPath
  ELSE IF find_last(Tail(names), which) # NoPath
  THEN find_last(Tail(names), which)
  ELSE IF Head(names) \in which THEN Head(names) ELSE NoPath

\* _find_compiler: the first of the candidate names that is on PATH
RECURSIVE find_first(_, _)
find_first(names, which) ==
  IF names = <<>> THEN NoPath
  ELSE IF Head(names) \in which THEN Head(names)
  ELSE find_first(Tail(names), which)

c_candidates   == <<"gcc", "clang">>
cpp_candidates == <<"g++", "clang++">>

c_find_compiler(which)   == find_first(c_candidates, which)
cpp_find_compiler(which) == find_first(cpp_candidates, which)

\* a plausible slip: the artifact is run whatever the compiler's exit status
compile_failed_never(comp) == FALSE

\* c_exec.py:71, `if comp.returncode != 0`
compile_failed(comp) == comp.rc # 0

\* a plausible slip: the run stage gets what compilation left of one budget
run_timeout_remaining(compile_t) == TIMEOUT - compile_t

\* c_exec.py:81, the timeout of the run stage: `timeout=TIMEOUT`
run_timeout(compile_t) == TIMEOUT

\* a plausible slip: the scratch directory is made with mkdtemp() and never
\* removed
cleanup_never(events) == events

\* leaving `with tempfile.TemporaryDirectory(...)`, by return or by exception
cleanup(events) == events \o << <<"rmtree", "tmpdir">> >>

\* c_exec.py:86, `if run.returncode != 0`
run_failed(run) == run.rc # 0

\* the body of _compile_and_run, the same in c_exec.py and cpp_exec.py but for
\* the compiler found and the words of the first message
compile_and_run(compiler, none_found, code, env, os) ==
  IF compiler = NoPath THEN Returns(FALSE, none_found, <<>>)
  ELSE
    LET mk == << <<"create", "tmpdir">>, <<"create", "tmpdir/src">> >>
        body ==
          IF ~Encodable(code) THEN Raises("UnicodeEncodeError", mk)
          ELSE IF env.write = "oserror" THEN Raises("OSError", mk)
          ELSE
            \* cmd = [compiler, str(src), ...]: the compiler found is the
            \* program of the compile stage
            LET comp == subprocess_run("compile", env.compile, TIMEOUT, os)
                ev1  == mk \o << <<"compiler", compiler>> >> \o comp.events
            IN
            IF comp.raised = "TimeoutExpired"
            THEN Returns(FALSE,
                   <<"Compilation exceeded ", ToString(TIMEOUT), "s timeout.">>,
                   ev1)
            ELSE IF comp.raised # "none" THEN Raises(comp.raised, ev1)
            ELSE IF compile_failed(comp)
            THEN Returns(FALSE,
                   <<"Compilation failed:\n">> \o comp.out \o comp.err, ev1)
            ELSE
              LET run == subprocess_run("run", env.run,
                                        run_timeout(env.compile.t), os)
                  ev2 == ev1
                         \o (IF comp.rc = 0
                             THEN << <<"create", "tmpdir/exe">> >> ELSE <<>>)
                         \o run.events
              IN
              IF run.raised = "TimeoutExpired"
              THEN Returns(FALSE,
                     <<"Execution exceeded ", ToString(TIMEOUT), "s timeout.">>,
                     ev2)
              ELSE IF run.raised # "none" THEN Raises(run.raised, ev2)
              ELSE IF run_failed(run)
              THEN Returns(FALSE,
                     <<"Runtime error (exit ", ToString(run.rc), "):\n">>
                     \o run.err, ev2)
              ELSE Returns(TRUE,
                     IF run.out # <<>> THEN run.out
                     ELSE <<"(program exited with no output)">>, ev2)
    IN  [body EXCEPT !.events = cleanup(@)]

\* c_exec._compile_and_run
c_compile_and_run(code, env, os) ==
  compile_and_run(c_find_compiler(env.which),
    <<"No C compiler (gcc or clang) found on your system PATH.">>,
    code, env, os)

\* cpp_exec._compile_and_run
cpp_compile_and_run(code, env, os) ==
  compile_and_run(cpp_find_compiler(env.which),
    <<"No C++ compiler (g++ or clang++) found on your PATH.">>,
    code, env, os)

(***************************************************************************)
(* registry.py: dispatch.                                                  *)
(***************************************************************************)
\* what an executor passed in by the host does with a snippet
host_fn(code, env) ==
  CASE env.host = "prints" -> Returns(TRUE, <<"out of: ">> \o code, <<>>)
    [] env.host = "fails"  -> Returns(FALSE, <<"failed on: ">> \o code, <<>>)
    [] OTHER               -> Raises("RuntimeError", <<>>)

\* fn(code), for each function an executor can be
Call(fn, code, env, os) ==
  CASE fn.src = "python_exec" -> _run_temp(code, env, os)
    [] fn.src = "c_exec"      -> c_compile_and_run(code, env, os)
    [] fn.src = "cpp_exec"    -> cpp_compile_and_run(code, env, os)
    [] OTHER                  -> host_fn(code, env)

\* A call of execute(): the table afterwards, the executor looked up, the
\* calls made to it, and what comes back to the caller.
Executed(table, fn, calls, out) ==
  [table |-> table, fn |-> fn, calls |-> calls, out |-> out]

\* a plausible slip: any exception of the executor is turned into a success
execute_swallows(d, code, lang, env, os) ==
  LET fn == Get(d, lower(lang))
  IN  IF fn = None
      THEN Executed(d, None, <<>>, Returns(FALSE, NoExecutorText(lang), <<>>))
      ELSE LET out == Call(fn, code, env, os)
           IN  Executed(d, fn, << <<fn, code>> >>,
                        IF out.raised = "none"
                        THEN [out EXCEPT !.ok = TRUE]
                        ELSE Returns(TRUE, <<>>, out.events))

\* a plausible slip: the table is subscripted (self._exec[lang.lower()]),
\* which raises KeyError for a language that is not bound
execute_subscripts(d, code, lang, env, os) ==
  LET fn == Get(d, lower(lang))
  IN  IF fn = None
      THEN Executed(d, None, <<>>, Raises("KeyError", <<>>))
      ELSE Executed(d, fn, << <<fn, code>> >>, Call(fn, code, env, os))

\* ExecutorRegistry.execute
execute(d, code, lang, env, os) ==
  LET fn == Get(d, lower(lang))
  IN  IF fn = None
      THEN Executed(d, None, <<>>, Returns(FALSE, NoExecutorText(lang), <<>>))
      ELSE Executed(d, fn, << <<fn, code>> >>, Call(fn, code, env, os))

(***************************************************************************)
(* registry.py: plugin loading.                                            *)
(***************************************************************************)
\* pkgutil.iter_modules yields the modules of PLUGIN_DIR sorted by name
PluginOrder == <<"c_exec", "cpp_exec", "python_exec">>

\* the language each plugin's register(reg) hook binds
plugin_lang(p) ==
  CASE p = "c_exec"   -> lang_c
    [] p = "cpp_exec" -> lang_cpp
    [] OTHER          -> lang_python

\* the executor function a module's namespace holds after its code has been
\* executed gen times
plugin_fn(p, gen) == [src |-> p, gen |-> gen]

\* str.upper(), used for the history only
UpperChar(ch) ==
  IF \E i \in 1..26 : Lowers[i] = ch
  THEN Uppers[CHOOSE i \in 1..26 : Lowers[i] = ch]
  ELSE ch

upper(s) == [i \in 1..Len(s) |-> UpperChar(s[i])]

\* the history of register() and unregister() calls
NoteRegister(h, lang, fn) == SetItem(h, upper(lang), fn)
NoteUnregister(h, lang)   == Pop(h, upper(lang))

\* A module of sys.modules: gen counts the executions of its file's code,
\* executed is the modification time of the file whose code it last executed,
\* loaded_mtime its attribute __loaded_mtime__ (0 when it has none).
\* One turn of the loop of load_plugins, on st = [exec, latest, mods]:
\* importlib.import_module returns the module of sys.modules or executes
\* the file (which raises when the file is bad, and then nothing is left in
\* sys.modules); then the hook registers the module's current function.
\* A module new to sys.modules comes after the ones already there: nth is
\* its place in the order of sys.modules.
load_one(st, files, p) ==
  LET m == st.mods[p]
  IN  IF ~m.loaded /\ files[p].content = "bad"
      THEN [st EXCEPT !.events = @ \o << <<"import_failed", p>> >>]
      ELSE
        LET gen == IF m.loaded THEN m.gen ELSE m.gen + 1
            nth == IF m.loaded THEN m.nth
                   ELSE 1 + Cardinality({ q \in Plugins : st.mods[q].loaded })
            fn  == plugin_fn(p, gen)
        IN  [exec   |-> register(st.exec, plugin_lang(p), fn),
             latest |-> NoteRegister(st.latest, plugin_lang(p), fn),
             mods   |-> [st.mods EXCEPT ![p] =
                           [loaded |-> TRUE, gen |-> gen,
                            loaded_mtime |-> m.loaded_mtime, nth |-> nth,
                            executed |-> IF m.loaded THEN m.executed
                                         ELSE files[p].mtime]],
             events |-> st.events
                        \o (IF m.loaded THEN <<>> ELSE << <<"import", p>> >>)
                        \o << <<"register", p>> >>]

RECURSIVE load_all(_, _, _)
load_all(st, files, order) ==
  IF order = <<>> THEN st
  ELSE load_all(load_one(st, files, Head(order)), files, Tail(order))

\* pkgutil.iter_modules([PLUGIN_DIR]): the modules whose file is there
RECURSIVE Listed(_, _)
Listed(files, order) ==
  IF order = <<>> THEN <<>>
  ELSE (IF files[Head(order)].content = "missing" THEN <<>>
        ELSE <<Head(order)>>)
       \o Listed(files, Tail(order))

\* ExecutorRegistry.load_plugins, on st = [exec, latest, mods, events]
load_plugins(st, files) == load_all(st, files, Listed(files, PluginOrder))

\* One turn of the loop of hot_reload for a plugin module of sys.modules:
\* getattr(mod, "__loaded_mtime__", 0) is 0 until a reload has set it.
reload_one(m, file) ==
  IF m.loaded /\ file.mtime > m.loaded_mtime /\ file.content # "bad"
  THEN [loaded |-> TRUE, gen |-> m.gen + 1, loaded_mtime |-> file.mtime,
        nth |-> m.nth, executed |-> file.mtime]
  ELSE m

\* list(sys.modules.values()), of the plugin modules: in the order of import
ImportOrder(mods) ==
  LET L == { p \in Plugins : mods[p].loaded }
  IN  [i \in 1..Cardinality(L) |-> CHOOSE p \in L : mods[p].nth = i]

\* One turn of the loop of hot_reload, on st = [mods, raised, events].
\* `mtime = p.stat().st_mtime` stands before the try: when the file is gone
\* FileNotFoundError leaves hot_reload.  An exception of importlib.reload
\* is caught and printed.
reload_turn(st, files, p) ==
  IF files[p].content = "missing"
  THEN [st EXCEPT !.raised = "FileNotFoundError",
                  !.events = @ \o << <<"stat_failed", p>> >>]
  ELSE
    LET m  == st.mods[p]
        m2 == reload_one(m, files[p])
    IN  [mods   |-> [st.mods EXCEPT ![p] = m2],
         raised |-> "none",
         events |-> st.events \o << <<"stat", p>> >>
                    \o (IF m2 # m THEN << <<"reload", p>> >>
                        ELSE IF files[p].mtime > m.loaded_mtime
                        THEN << <<"reload_failed", p>> >>
                        ELSE <<>>)]

RECURSIVE reload_all(_, _, _)
reload_all(st, files, order) ==
  IF order = <<>> \/ st.raised # "none" THEN st
  ELSE reload_all(reload_turn(st, files, Head(order)), files, Tail(order))

\* ExecutorRegistry.hot_reload
hot_reload(mods, files) ==
  reload_all([mods |-> mods, raised |-> "none", events |-> <<>>], files,
             ImportOrder(mods))

(***************************************************************************)
(* The inputs of the environment.                                          *)
(***************************************************************************)
NoEnv == Env({}, "ok", NoProc, NoProc, "none")

\* a process that is still running when its timeout expires
Hangs == Proc("exit", TIMEOUT + 1, 0, <<>>, <<>>)

\* one that has also started a process of its own (a compiler driver its
\* passes, a snippet a helper), running as long
Forks == Proc("forks", TIMEOUT + 1, 0, <<>>, <<>>)

\* How widely the environment is explored: the durations of the child
\* processes, the processes that outlast the timeout, whether every subset
\* of the compiler names may be on PATH (or only none and all of them), and
\* what the processes print.
Scope(durations, late, subsets, outs, errs) ==
  [durations |-> durations, late |-> late, subsets |-> subsets,
   outs |-> outs, errs |-> errs]

\* where one attempt is explored, and where the registry is
AllScope ==
  Scope(0..TIMEOUT, {Hangs, Forks}, TRUE, {<<>>, <<"hello">>},
        {<<>>, <<"stderr">>})
FewScope == Scope({1}, {Hangs}, FALSE, {<<"hello">>}, {<<"stderr">>})

\* (what a compiler that exits with status 0 prints is never read)
CompileProcs(sc) ==
  { Proc("oserror", 0, 0, <<>>, <<>>) } \cup sc.late
  \cup { Proc("undecodable", t, 1, <<>>, <<>>) : t \in sc.durations }
  \cup { Proc("exit", t, 0, <<>>, <<>>) : t \in sc.durations }
  \cup { Proc("exit", t, 1, out, err) :
           t \in sc.durations, out \in sc.outs, err \in sc.errs }

RunProcs(sc) ==
  { Proc("oserror", 0, 0, <<>>, <<>>) } \cup sc.late
  \cup { Proc("undecodable", t, 0, <<>>, <<>>) : t \in sc.durations }
  \cup { Proc("exit", t, rc, out, err) :
           t \in sc.durations, rc \in {0, 1}, out \in sc.outs, err \in sc.errs }

\* the compile stage ends in time with status 0, so that a run stage follows
CompilesCleanly(p) == p.kind = "exit" /\ p.t <= TIMEOUT /\ p.rc = 0

OnPath(names, sc) == IF sc.subsets THEN SUBSET names ELSE {{}, names}

\* The environments that differ for a call of an executor on code: an input
\* the call never reads is left at its default.
CompiledEnvs(names, code, sc) ==
  { Env(w, "ok", NoProc, NoProc, "none") :
      w \in { w \in OnPath(names, sc) : ~Encodable(code) \/ w = {} } }
  \cup { Env(w, "oserror", NoProc, NoProc, "none") :
      w \in { w \in OnPath(names, sc) : Encodable(code) /\ w # {} } }
  \cup { Env(w, "ok", c, NoProc, "none") :
      w \in { w \in OnPath(names, sc) : Encodable(code) /\ w # {} },
      c \in { c \in CompileProcs(sc) : ~CompilesCleanly(c) } }
  \cup { Env(w, "ok", c, r, "none") :
      w \in { w \in OnPath(names, sc) : Encodable(code) /\ w # {} },
      c \in { c \in CompileProcs(sc) : CompilesCleanly(c) },
      r \in RunProcs(sc) }

InterpretedEnvs(code, sc) ==
  IF ~Encodable(code) THEN {NoEnv}
  ELSE { Env({}, "oserror", NoProc, NoProc, "none") }
       \cup { Env({}, "ok", NoProc, r, "none") : r \in RunProcs(sc) }

HostEnvs ==
  { Env({}, "ok", NoProc, NoProc, h) : h \in {"prints", "fails", "raises"} }

Sources == {"None", "host"} \cup Plugins

EnvTable(sc) ==
  [src \in Sources |-> [code \in Codes |->
     CASE src = "None"        -> {NoEnv}
       [] src = "python_exec" -> InterpretedEnvs(code, sc)
       [] src = "c_exec"      -> CompiledEnvs({"gcc", "clang"}, code, sc)
       [] src = "cpp_exec"    -> CompiledEnvs({"g++", "clang++"}, code, sc)
       [] OTHER               -> HostEnvs ]]

AllEnvs == EnvTable(AllScope)
FewEnvs == EnvTable(FewScope)

(***************************************************************************)
(* The state machine.                                                      *)
(***************************************************************************)
\* the last call: its name and arguments (lang, code, fn given to register),
\* the environment it ran in, the executor it looked up and the calls it made
\* to it, and what came back: an exception (raised), an Outcome (ok, text),
\* or a value (has: ok; list_languages: value)
Ret(op, lang, code, arg, env, fn, calls, raised, ok, text, events, value) ==
  [op |-> op, lang |-> lang, code |-> code, arg |-> arg, env |-> env,
   fn |-> fn, calls |-> calls, raised |-> raised, ok |-> ok, text |-> text,
   events |-> events, value |-> value]

Plain(op, lang, arg, ok, value) ==
  Ret(op, lang, <<>>, arg, NoEnv, None, <<>>, "none", ok, <<>>, <<>>, value)

NotLoaded ==
  [loaded |-> FALSE, gen |-> 0, loaded_mtime |-> 0, nth |-> 0, executed |-> 0]

\* what came back from a discovery call
Discovered(op, raised, events) ==
  Ret(op, <<>>, <<>>, None, NoEnv, None, <<>>, raised, FALSE, <<>>, events,
      <<>>)

\* the threads of the host that call discovery
Threads == {"t1", "t2"}

\* A thread inside load_plugins or hot_reload: the plugins its loop has
\* still to visit, the table as its last step left it, and the exception and
\* events of the call so far.
Inside(op, todo, table, raised, events) ==
  [op |-> op, todo |-> todo, table |-> table, raised |-> raised,
   events |-> events]

\* a thread that is not inside a discovery call
Idle == Inside("idle", <<>>, <<>>, "none", <<>>)

\* a scan is run at clock reading t: the reading of the last scan
Scan(log, t) == <<t>>

\* a call of execute(code, lang) and the environment it will meet
Pending(code, lang, env) == [code |-> code, lang |-> lang, env |-> env]

NoCall == Pending(<<>>, <<>>, NoEnv)

Init ==
  /\ _exec = <<>>
  /\ latest = <<>>
  /\ sys_modules = [p \in Plugins |-> NotLoaded]
  /\ plugin_files = [p \in Plugins |-> [mtime |-> 1, content |-> "good"]]
  /\ os_name = "posix"
  /\ call = NoCall
  /\ now = 0
  /\ scanned = <<>>
  /\ threads = [t \in Threads |-> Idle]
  /\ ret = Plain("init", <<>>, None, FALSE, <<>>)

Register(lang, fn) ==
  /\ _exec' = register(_exec, lang, fn)
  /\ latest' = NoteRegister(latest, lang, fn)
  /\ ret' = Plain("register", lang, fn, FALSE, <<>>)
  /\ UNCHANGED <<sys_modules, plugin_files, os_name, call, now,
               scanned, threads>>

Unregister(lang) ==
  /\ _exec' = unregister(_exec, lang)
  /\ latest' = NoteUnregister(latest, lang)
  /\ ret' = Plain("unregister", lang, None, FALSE, <<>>)
  /\ UNCHANGED <<sys_modules, plugin_files, os_name, call, now,
               scanned, threads>>

Has(lang) ==
  /\ ret' = Plain("has", lang, None, has(_exec, lang), <<>>)
  /\ UNCHANGED <<_exec, latest, sys_modules, plugin_files, os_name, call, now,
               scanned, threads>>

ListLanguages ==
  /\ ret' = Plain("list_languages", <<>>, None, FALSE, list_languages(_exec))
  /\ UNCHANGED <<_exec, latest, sys_modules, plugin_files, os_name, call, now,
               scanned, threads>>

\* a call execute(code, lang) by the host, meeting env
ExecuteCall(code, lang, env) ==
  LET x == execute(_exec, code, lang, env, os_name)
  IN  /\ _exec' = x.table
      /\ ret' = Ret("execute", lang, code, None, env, x.fn, x.calls,
                    x.out.raised, x.out.ok, x.out.text, x.out.events, <<>>)
      /\ UNCHANGED <<latest, sys_modules, plugin_files, os_name, now, scanned,
                     threads>>

\* where the registry is explored: one snippet that can be encoded and one
\* that cannot
FewCodes == { <<"x">>, <<Surrogate>> }

Execute ==
  \E code \in FewCodes, lang \in Langs :
    \E env \in FewEnvs[Get(_exec, lower(lang)).src][code] :
      /\ ExecuteCall(code, lang, env)
      /\ UNCHANGED call

LoadPlugins ==
  LET st == load_plugins([exec |-> _exec, latest |-> latest,
                          mods |-> sys_modules, events |-> <<>>],
                         plugin_files)
  IN  /\ _exec' = st.exec
      /\ latest' = st.latest
      /\ sys_modules' = st.mods
      /\ scanned' = Scan(scanned, now)
      /\ ret' = Discovered("load_plugins", "none", st.events)
      /\ UNCHANGED <<plugin_files, os_name, call, now, threads>>

HotReload ==
  LET st == hot_reload(sys_modules, plugin_files)
  IN  /\ sys_modules' = st.mods
      /\ scanned' = Scan(scanned, now)
      /\ ret' = Discovered("hot_reload", st.raised, st.events)
      /\ UNCHANGED <<_exec, latest, plugin_files, os_name, call, now, threads>>

\* the number of edits made to the plugin files so far
RECURSIVE Edits(_, _)
Edits(files, order) ==
  IF order = <<>> THEN 0
  ELSE (files[Head(order)].mtime - 1) + Edits(files, Tail(order))

\* somebody saves a plugin file: its modification time advances
EditFile(p, content) ==
  /\ Edits(plugin_files, PluginOrder) < MaxEdits
  /\ plugin_files' = [plugin_files EXCEPT ![p] =
                        [mtime |-> @.mtime + 1, content |-> content]]
  /\ UNCHANGED <<_exec, latest, sys_modules, os_name, call, now, scanned,
                 threads, ret>>

\* time goes by
Pass ==
  /\ now < MaxClock
  /\ now' = now + 1
  /\ UNCHANGED <<_exec, latest, sys_modules, plugin_files, os_name, call,
                 scanned, threads, ret>>

Next ==
  \/ \E lang \in Langs, fn \in HostFns : Register(lang, fn)
  \/ \E lang \in Langs : Unregister(lang)
  \/ \E lang \in Langs : Has(lang)
  \/ ListLanguages
  \/ Execute
  \/ LoadPlugins
  \/ HotReload

Spec == Init /\ [][Next]_vars

(***************************************************************************)
(* One Execution Attempt by itself: the plugins have been loaded, and one  *)
(* call of execute() is made, for every snippet, language and environment. *)
(***************************************************************************)
Loaded ==
  load_plugins([exec |-> <<>>, latest |-> <<>>,
                mods |-> [p \in Plugins |-> NotLoaded], events |-> <<>>],
               [p \in Plugins |-> [mtime |-> 1, content |-> "good"]])

InitAttempt ==
  /\ _exec = Loaded.exec
  /\ latest = Loaded.latest
  /\ sys_modules = Loaded.mods
  /\ plugin_files = [p \in Plugins |-> [mtime |-> 1, content |-> "good"]]
  /\ os_name \in {"posix", "nt"}
  /\ \E code \in Codes, lang \in Langs :
       \E env \in AllEnvs[Get(Loaded.exec, lower(lang)).src][code] :
         call = Pending(code, lang, env)
  /\ now = 0
  /\ scanned = <<0>>
  /\ threads = [t \in Threads |-> Idle]
  /\ ret = Plain("init", <<>>, None, FALSE, <<>>)

Attempt ==
  /\ call # NoCall
  /\ ExecuteCall(call.code, call.lang, call.env)
  /\ call' = NoCall

NextAttempt == Attempt

SpecAttempt == InitAttempt /\ [][NextAttempt]_vars

(***************************************************************************)
(* Discovery by itself: the host loads and reloads the plugins while their *)
(* files are saved, spoilt or deleted and time goes by.                    *)
(***************************************************************************)
\* what a plugin file can be after it is saved: a plugin, a file whose
\* execution raises an Exception, or no file (it is deleted)
Contents == {"good", "bad", "missing"}

NextDiscovery ==
  \/ LoadPlugins
  \/ HotReload
  \/ \E p \in Plugins, content \in Contents : EditFile(p, content)
  \/ Pass

SpecDiscovery == Init /\ [][NextDiscovery]_vars

(***************************************************************************)
(* Several threads of the host on one registry.  Nothing in registry.py    *)
(* takes a lock: a thread inside load_plugins or hot_reload can be         *)
(* switched out between two turns of its loop, and another thread runs.    *)
(* register, unregister and list_languages are single dict operations and  *)
(* are taken as one step; the host registers and unregisters one language, *)
(* the one a plugin binds too.                                             *)
(***************************************************************************)
\* thread t enters load_plugins or hot_reload: the loop is set up
Begin(t, op) ==
  /\ threads[t] = Idle
  /\ threads' = [threads EXCEPT ![t] =
       Inside(op,
              IF op = "load_plugins" THEN Listed(plugin_files, PluginOrder)
              ELSE ImportOrder(sys_modules),
              _exec, "none", <<>>)]
  /\ scanned' = Scan(scanned, now)
  /\ UNCHANGED <<_exec, latest, sys_modules, plugin_files, os_name, call, now,
                 ret>>

\* one turn of the loop thread t is in
Turn(t) ==
  LET th == threads[t]
  IN  /\ th.op # "idle"
      /\ th.todo # <<>>
      /\ IF th.op = "load_plugins"
         THEN LET st == load_one([exec |-> _exec, latest |-> latest,
                                  mods |-> sys_modules, events |-> th.events],
                                 plugin_files, Head(th.todo))
              IN  /\ _exec' = st.exec
                  /\ latest' = st.latest
                  /\ sys_modules' = st.mods
                  /\ threads' = [threads EXCEPT ![t] =
                       Inside(th.op, Tail(th.todo), st.exec, "none",
                              st.events)]
         ELSE LET st == reload_turn([mods |-> sys_modules, raised |-> "none",
                                     events |-> th.events],
                                    plugin_files, Head(th.todo))
              IN  /\ sys_modules' = st.mods
                  /\ threads' = [threads EXCEPT ![t] =
                       Inside(th.op,
                              IF st.raised = "none" THEN Tail(th.todo)
                              ELSE <<>>,
                              _exec, st.raised, st.events)]
                  /\ UNCHANGED <<_exec, latest>>
      /\ UNCHANGED <<plugin_files, os_name, call, now, scanned, ret>>

\* the loop of thread t is over: the call returns or raises
Return(t) ==
  LET th == threads[t]
  IN  /\ th.op # "idle"
      /\ th.todo = <<>>
      /\ ret' = Discovered(th.op, th.raised, th.events)
      /\ threads' = [threads EXCEPT ![t] = Idle]
      /\ UNCHANGED <<_exec, latest, sys_modules, plugin_files, os_name, call,
                     now, scanned>>

NextConcurrent ==
  \/ \E t \in Threads, op \in {"load_plugins", "hot_reload"} : Begin(t, op)
  \/ \E t \in Threads : Turn(t)
  \/ \E t \in Threads : Return(t)
  \/ \E fn \in HostFns : Register(<<"C">>, fn)
  \/ Unregister(<<"C">>)
  \/ ListLanguages

SpecConcurrent == Init /\ [][NextConcurrent]_vars

(***************************************************************************)
(* The claims.                                                             *)
(***************************************************************************)
\* the executor execute() would look up for lang in the current table
Dispatch(lang) == execute(_exec, <<>>, lang, NoEnv, os_name).fn

\* the executor of the last register() call for lang, under any casing, that
\* no unregister() followed
LastRegistered(lang) == Get(latest, upper(lang))

Unbound(lang) == \A k \in DOMAIN _exec : ~EqIgnoringCase(k, lang)

no_executor == <<"n","o"," ","e","x","e","c","u","t","o","r">>

No_executor_for ==
  <<"N","o"," ","e","x","e","c","u","t","o","r"," ","f","o","r"," ">>

\* C1, as stated: execute() for a language with no bound executor does not
\* raise and returns a failure whose text contains "no executor" and names
\* the language.
C1_NoExecutorLowercase ==
  (ret.op = "execute" /\ Unbound(ret.lang)) =>
    /\ ret.raised = "none"
    /\ ~ret.ok
    /\ Contains(ret.text, no_executor)
    /\ Contains(ret.text, ret.lang)

\* C1, amended: execute() for a language with no bound executor does not
\* raise and returns a failure whose text contains "No executor for "
\* followed by the language as the caller wrote it (the words begin with a
\* capital N: the text contains "no executor" only when letter case is
\* ignored).
C1_NoExecutor ==
  (ret.op = "execute" /\ Unbound(ret.lang)) =>
    /\ ret.raised = "none"
    /\ ~ret.ok
    /\ Contains(ret.text, No_executor_for \o ret.lang)
    /\ Contains(lower(ret.text), no_executor)

C1_Witness ==
  /\ ret.op = "execute"
  /\ Unbound(ret.lang)
  /\ ret.lang = <<"P","y","t","h","o","n">>
  /\ DOMAIN _exec # {}

\* C2: execute() never raises: whatever way an attempt fails, the caller gets
\* a (False, text) Outcome.
C2_NeverRaises ==
  ret.op = "execute" => ret.raised = "none"

\* C3: no two bound keys are the same language up to letter case, and for
\* every language execute() dispatches to the executor of the most recent
\* register() call for it (by the host or by a plugin's hook) that no
\* unregister() followed, and to none when there is no such call.
C3_MostRecentWins ==
  /\ \A k1 \in DOMAIN _exec, k2 \in DOMAIN _exec :
       EqIgnoringCase(k1, k2) => k1 = k2
  /\ \A lang \in Langs : Dispatch(lang) = LastRegistered(lang)
  /\ ret.op = "execute" => ret.fn = LastRegistered(ret.lang)

C3_Witness ==
  /\ ret.op = "execute"
  /\ ret.lang = <<"C">>
  /\ ret.fn.src = "host"
  /\ sys_modules["c_exec"].loaded
  /\ Get(_exec, lang_cpp).src = "cpp_exec"

C5_Unregister ==
  /\ [](ret.op = "unregister" =>
          /\ ret.raised = "none"
          /\ \A lang \in Langs :
               EqIgnoringCase(lang, ret.lang) => ~has(_exec, lang)
          /\ \A i \in 1..Len(list_languages(_exec)) :
               ~EqIgnoringCase(list_languages(_exec)[i], ret.lang))
  /\ [][(ret'.op = "unregister" /\ Unbound(ret'.lang)) => _exec' = _exec]_vars

C5_Witness ==
  /\ ret.op = "unregister"
  /\ ret.lang = <<"C">>
  /\ sys_modules["c_exec"].loaded
  /\ lang_cpp \in DOMAIN _exec
  /\ lang_c \notin DOMAIN _exec

\* C6: in every state list_languages() is the list of the bound keys, each
\* once, in ascending order; and a second call right after a first returns
\* the same list.
C6_ListLanguages ==
  /\ [](LET v == list_languages(_exec)
        IN  /\ { v[i] : i \in 1..Len(v) } = DOMAIN _exec
            /\ Len(v) = Cardinality(DOMAIN _exec)
            /\ \A i \in 1..Len(v), j \in 1..Len(v) :
                 i < j => StrLess(v[i], v[j])
            /\ ret.op = "list_languages" => ret.value = v)
  /\ [][(ret.op = "list_languages" /\ ret'.op = "list_languages")
          => ret'.value = ret.value]_vars

C6_Witness ==
  /\ ret.op = "list_languages"
  /\ Len(ret.value) = 4
  /\ ret.value[3] = <<"g","o">>

\* C7: when the language is bound, execute() calls the bound executor once,
\* on the code as given, and what it returns or raises is what the executor
\* returned or raised; execute(), has() and list_languages() leave the table
\* as it is, and only register(), unregister() and discovery change it.
C7_DelegatesUnchanged ==
  /\ [](ret.op = "execute" /\ ~Unbound(ret.lang) =>
          /\ ret.fn = LastRegistered(ret.lang)
          /\ ret.calls = << <<ret.fn, ret.code>> >>
          /\ LET o == Call(ret.fn, ret.code, ret.env, os_name)
             IN  /\ ret.raised = o.raised
                 /\ ret.ok = o.ok
                 /\ ret.text = o.text)
  /\ [][ret'.op \in {"execute", "has", "list_languages"} => _exec' = _exec]_vars
  /\ [][_exec' # _exec =>
          ret'.op \in {"register", "unregister", "load_plugins", "hot_reload"}]_vars

C7_Witness ==
  /\ ret.op = "execute"
  /\ ret.fn.src = "c_exec"
  /\ ret.ok
  /\ ret.text = <<"hello">>

Compiled(fn) == fn.src \in {"c_exec", "cpp_exec"}

Spawned(events, stage) ==
  \E i \in 1..Len(events) : events[i] = <<"spawn", stage>>

\* C8: when execute() comes back from the c, cpp or python executor, by an
\* Outcome or by an exception, every temporary directory and file made for
\* the attempt has been removed, and removed once.
C8_TempRemoved ==
  (ret.op = "execute" /\ ret.fn # None) =>
    /\ Left(ret.events) = {}
    /\ \A path \in Created(ret.events) : Removals(ret.events, path) = 1

\* C9: in an attempt of a compiled-language executor the run stage is started
\* only after the compile stage has exited with status 0 within its timeout;
\* after a compile timeout or a nonzero compiler exit nothing is run.
C9_RunAfterCompile ==
  (ret.op = "execute" /\ Compiled(ret.fn)) =>
    /\ \A i \in 1..Len(ret.events) :
         ret.events[i] = <<"spawn", "run">> =>
           /\ \E j \in 1..(i - 1) : ret.events[j] = <<"exit", "compile">>
           /\ ret.env.compile.kind = "exit"
           /\ ret.env.compile.rc = 0
           /\ ret.env.compile.t <= TIMEOUT
    /\ (ret.env.compile.t > TIMEOUT \/ ret.env.compile.rc # 0) =>
         ~Spawned(ret.events, "run")

C9_Witness ==
  /\ ret.op = "execute"
  /\ Compiled(ret.fn)
  /\ Spawned(ret.events, "run")
  /\ ret.env.compile.t = TIMEOUT

ExitsZeroInTime(p) ==
  p.kind \in {"exit", "undecodable"} /\ p.t <= TIMEOUT /\ p.rc = 0

ExitsNonzeroInTime(p) ==
  p.kind \in {"exit", "undecodable"} /\ p.t <= TIMEOUT /\ p.rc # 0

\* the compiler _find_compiler is to return, stated without its loop
Chosen(fn, which) ==
  IF fn.src = "c_exec"
  THEN IF "gcc" \in which THEN "gcc"
       ELSE IF "clang" \in which THEN "clang" ELSE NoPath
  ELSE IF "g++" \in which THEN "g++"
       ELSE IF "clang++" \in which THEN "clang++" ELSE NoPath

\* the kind of Outcome execute() came back with, by the flag and the words
\* the text begins with; "none" when it came back by an exception
Kind(r) ==
  IF r.raised # "none" THEN "none"
  ELSE IF r.ok THEN "success"
  ELSE IF r.text = <<>> THEN "failure"
  ELSE CASE Head(r.text) = "Compilation exceeded " -> "compile timeout"
         [] Head(r.text) = "Compilation failed:\n" -> "compilation failed"
         [] Head(r.text) = "Execution exceeded "   -> "execution timeout"
         [] Head(r.text) = "Runtime error (exit "  -> "runtime error"
         [] OTHER                                  -> "failure"

\* the kind the first stage that does not complete normally calls for
ExpectedKind(c, r) ==
  IF c.t > TIMEOUT THEN "compile timeout"
  ELSE IF ExitsNonzeroInTime(c) THEN "compilation failed"
  ELSE IF ~ExitsZeroInTime(c) THEN "none"
  ELSE IF r.t > TIMEOUT THEN "execution timeout"
  ELSE IF ExitsNonzeroInTime(r) THEN "runtime error"
  ELSE IF ExitsZeroInTime(r) THEN "success"
  ELSE "none"

\* the snippet has been written and a compiler was found to compile it
CompileStarted(r) ==
  /\ r.op = "execute"
  /\ Compiled(r.fn)
  /\ Chosen(r.fn, r.env.which) # NoPath
  /\ Encodable(r.code)
  /\ r.env.write = "ok"
  /\ r.env.compile.kind # "oserror"

\* C11: in an attempt of a compiled-language executor whose compile stage is
\* started, the kind of the Outcome is the one the first stage that does not
\* complete normally calls for: a compile timeout gives the compile-timeout
\* failure; a nonzero compiler exit gives the compilation-failed failure
\* with the compiler's stdout and stderr, and no timeout message; a run
\* timeout gives the execution-timeout failure, after a compile that exited
\* with status 0; a nonzero exit of the run gives the runtime-error failure
\* with the exit status and stderr; and the flag is true exactly when both
\* stages exit with status 0 within their timeouts.
C11_OutcomeKinds ==
  (CompileStarted(ret) /\ (ExitsZeroInTime(ret.env.compile)
                             => ret.env.run.kind # "oserror")) =>
    LET c == ret.env.compile
        r == ret.env.run
    IN  /\ Kind(ret) = ExpectedKind(c, r)
        /\ ExpectedKind(c, r) = "compilation failed"
             => ret.text = <<"Compilation failed:\n">> \o c.out \o c.err
        /\ ExpectedKind(c, r) = "execution timeout"
             => \E i \in 1..Len(ret.events) :
                  /\ ret.events[i] = <<"exit", "compile">>
                  /\ \E j \in (i + 1)..Len(ret.events) :
                       ret.events[j] = <<"kill", "run">>
        /\ ExpectedKind(c, r) = "runtime error"
             => ret.text = <<"Runtime error (exit ", ToString(r.rc), "):\n">>
                           \o r.err
        /\ (ret.raised = "none" /\ ret.ok)
             <=> (ExitsZeroInTime(c) /\ ExitsZeroInTime(r))

\* the processes of an attempt that are running after its events: the child
\* of a stage until it exits or is killed, and a process the child started
\* until the child's process group is killed
StillRunning(events) ==
  { <<"child", s>> : s \in
      { s \in {"compile", "run"} :
          \E i \in 1..Len(events) :
            /\ events[i] = <<"spawn", s>>
            /\ \A j \in (i + 1)..Len(events) :
                 events[j] \notin { <<"exit", s>>, <<"kill", s>> } } }
  \cup
  { <<"forked", s>> : s \in
      { s \in {"compile", "run"} :
          \E i \in 1..Len(events) :
            /\ events[i] = <<"fork", s>>
            /\ \A j \in (i + 1)..Len(events) :
                 events[j] # <<"killpg", s>> } }

TimeoutKinds == {"compile timeout", "execution timeout"}

PythonTimedOut(r) ==
  r.fn.src = "python_exec" /\ r.raised = "none" /\ ~r.ok
    /\ r.text = <<"Execution timed out">>

\* C12: when execute() returns the timeout Outcome of a stage of the c, cpp
\* or python executor, no process of the attempt is running any more:
\* neither the child of the stage nor a process that child started.
C12_TimeoutKillsTree ==
  (ret.op = "execute"
     /\ \/ Compiled(ret.fn) /\ Kind(ret) \in TimeoutKinds
        \/ PythonTimedOut(ret))
    => StillRunning(ret.events) = {}

\* C17: a success Outcome of the c, cpp or python executor never has an
\* empty text: when the program printed nothing, the text is a marker that
\* says so.
C17_SuccessTextNonEmpty ==
  (ret.op = "execute" /\ ret.fn.src \in Plugins
     /\ ret.raised = "none" /\ ret.ok)
    => /\ ret.text # <<>>
       /\ \A i \in 1..Len(ret.text) : ret.text[i] # ""
       /\ ret.env.run.out = <<>>
            => ret.text = <<"(program exited with no output)">>

\* the program the compile stage of an attempt was started with
CompilersUsed(events) ==
  { events[i][2] : i \in { i \in 1..Len(events) : events[i][1] = "compiler" } }

\* C18: when none of its candidate compilers is on PATH, a compiled-language
\* executor returns a failure Outcome at once: nothing is raised, no scratch
\* directory or file is made and no process is started.  The candidates
\* are tried in a fixed order, gcc before clang and g++ before clang++, and
\* the first one found is the one the compile stage is started with.
C18_NoCompiler ==
  (ret.op = "execute" /\ Compiled(ret.fn)) =>
    /\ Chosen(ret.fn, ret.env.which) = NoPath =>
         /\ ret.raised = "none"
         /\ ~ret.ok
         /\ ret.text # <<>>
         /\ ret.events = <<>>
    /\ CompilersUsed(ret.events) \subseteq {Chosen(ret.fn, ret.env.which)}
    /\ Spawned(ret.events, "compile") =>
         CompilersUsed(ret.events) = {Chosen(ret.fn, ret.env.which)}

C18_Witness ==
  /\ ret.op = "execute"
  /\ ret.fn.src = "c_exec"
  /\ ret.env.which = {}
  /\ ret.events = <<>>
  /\ ~ret.ok

C18_WitnessFirstFound ==
  /\ ret.op = "execute"
  /\ ret.fn.src = "cpp_exec"
  /\ ret.env.which = {"g++", "clang++"}
  /\ CompilersUsed(ret.events) = {"g++"}
  /\ ret.ok

\* the seconds the caller of an attempt spent waiting for a stage
Waited(events, stage) ==
  Cardinality({ i \in 1..Len(events) : events[i] = <<"second", stage>> })

\* a wait of the attempt that no timeout bounds
Blocked(events) ==
  \E i \in 1..Len(events) : events[i][1] = "blocked"

\* C19: every attempt of the c, cpp or python executor comes back, by an
\* Outcome or an exception, after waits that are all bounded: the wait for
\* each stage's process lasts at most TIMEOUT, so a compiled attempt waits
\* at most two timeout periods and an interpreted attempt at most one.
C19_BoundedWaits ==
  (ret.op = "execute" /\ ret.fn.src \in Plugins) =>
    /\ ~Blocked(ret.events)
    /\ Waited(ret.events, "compile") <= TIMEOUT
    /\ Waited(ret.events, "run") <= TIMEOUT
    /\ Waited(ret.events, "compile") + Waited(ret.events, "run")
         <= (IF Compiled(ret.fn) THEN 2 * TIMEOUT ELSE TIMEOUT)

\* C13: the clock counting throttle intervals, a call of a rescan trigger
\* runs a plugin scan only when more than one interval has gone by since the
\* scan before it; two calls within one interval run at most one scan.
C13_ThrottledScan ==
  [][(ret' # ret /\ ret'.op \in {"load_plugins", "hot_reload"})
       => (scanned = <<>> \/ now - scanned[1] > 1)]_vars

Has_event(events, kind, p) ==
  \E i \in 1..Len(events) : events[i] = <<kind, p>>

\* C14: load_plugins and hot_reload never raise; a plugin whose load or
\* reload fails is skipped and every other plugin is still processed:
\* load_plugins imports or registers every plugin of the directory whose
\* file can be loaded and leaves its language bound to it, and hot_reload
\* looks at every loaded plugin module.
C14_FailuresSkipped ==
  /\ ret.op \in {"load_plugins", "hot_reload"} => ret.raised = "none"
  /\ ret.op = "load_plugins" =>
       \A p \in Plugins :
         (plugin_files[p].content = "good" \/
            (plugin_files[p].content = "bad" /\ sys_modules[p].loaded)) =>
           /\ Has_event(ret.events, "register", p)
           /\ Get(_exec, plugin_lang(p)).src = p
  /\ ret.op = "hot_reload" =>
       \A p \in Plugins :
         sys_modules[p].loaded =>
           \/ Has_event(ret.events, "stat", p)
           \/ Has_event(ret.events, "stat_failed", p)

\* C16: when hot_reload has reloaded a plugin module because its file's
\* modification time was past the recorded one, the registration hook has
\* been called again: the language of the plugin is bound to the executor
\* the reloaded module defines, not to the one from before the reload.
C16_ReloadRebinds ==
  ret.op = "hot_reload" =>
    \A p \in Plugins :
      Has_event(ret.events, "reload", p) =>
        /\ Has_event(ret.events, "register", p)
        /\ Get(_exec, plugin_lang(p)) = plugin_fn(p, sys_modules[p].gen)

\* C20: a call of hot_reload executes the code of a plugin module again only
\* when the file's modification time is greater than it was when the module
\* was last loaded, by load_plugins or by an earlier reload: a plugin loaded
\* and not saved since is not reloaded, by the first hot_reload or by a
\* later one; and a reload that fails leaves the recorded time as it was.
C20_ReloadOnlyWhenNewer ==
  [][ret'.op = "hot_reload" =>
       \A p \in Plugins :
         /\ sys_modules'[p].gen > sys_modules[p].gen =>
              plugin_files[p].mtime > sys_modules[p].executed
         /\ (sys_modules'[p] # sys_modules[p]
               /\ Has_event(ret'.events, "reload_failed", p)) =>
              sys_modules'[p].loaded_mtime = sys_modules[p].loaded_mtime]_vars

\* thread t is inside a discovery call
InDiscovery(t) == threads[t].op # "idle"

\* thread t has made some of the bindings of its load_plugins and not all
MidUpdate(t) ==
  /\ threads[t].op = "load_plugins"
  /\ threads[t].todo # <<>>
  /\ \E p \in Plugins : Has_event(threads[t].events, "register", p)

\* C15: calls from several threads interleave safely: at most one thread is
\* inside a discovery scan at a time; while a thread is inside one, the table
\* is as that thread's last step left it (no register, unregister or other
\* scan changes it in between); and no read returns while a scan has made
\* some of its bindings and not all.
C15_MutuallyExclusive ==
  /\ [](/\ Cardinality({ t \in Threads : InDiscovery(t) }) <= 1
        /\ \A t \in Threads : InDiscovery(t) => _exec = threads[t].table)
  /\ [][(ret' # ret /\ ret'.op \in {"execute", "has", "list_languages"})
          => \A t \in Threads : ~MidUpdate(t)]_vars

====
